---- MODULE Spec2Model ----
(***************************************************************************)
(* ZyloClient: the three-tier token manager of                             *)
(* src/src/components/puzzle-solver.tsx (class ZyloClient, lines 158-747). *)
(*                                                                         *)
(* One manager instance, its localStorage slots, the Supabase session it   *)
(* binds tokens to, the timers it arms and the asynchronous operations in  *)
(* flight.  An action is the code that runs between two suspension points  *)
(* (an awaited fetch or an awaited supabase.auth call); awaiting one of    *)
(* the class's own async methods continues in the same action.             *)
(***************************************************************************)
EXTENDS Integers, Sequences, FiniteSets

(* ------------------------------ bounds --------------------------------- *)
(* how many lifetimes (expires_in, in seconds) a token issuer chooses from *)
MaxLifetimes == 1
ExpiresInSet == {600 * k : k \in 1..MaxLifetimes}

(* Date.now().  The clock's origin moves with the present: a tick leaves   *)
(* Date.now() where it is and moves every timestamp the program holds one  *)
(* tick towards the past (see Tick).                                       *)
now == 3600 * 1000

(* ------------------------- program constants --------------------------- *)
RenewBeforeMs == 2 * 60 * 1000
UpgradeDelayMs == 5 * 60 * 1000
TOKEN_KEY == "zylo_token"
TOKEN_EXPIRY_KEY == "zylo_token_expiry"
TOKEN_TYPE_KEY == "zylo_token_type"
TokenType == {"FALLBACK_ANON", "SCOPED_ANON", "USER_SCOPED"}

(* tokens are opaque; one name per issuer *)
supabaseAnonKey == "supabaseAnonKey"
ScopedAnonJwt == "scopedAnonJwt"
UserScopedJwt == "userScopedJwt"
SupabaseUserJwt == "supabaseUserJwt"
Undefined == "undefined"
NoSession == "no-session"

(* -------------------- JavaScript values and coercions ------------------ *)
JSNull == [type |-> "null", n |-> 0]
JSUndefined == [type |-> "undefined", n |-> 0]
NaN == [type |-> "NaN", n |-> 0]
Num(k) == [type |-> "number", n |-> k]
IsNum(v) == v.type = "number"
Falsy(v) == v.type \in {"null", "undefined", "NaN"} \/ (IsNum(v) /\ v.n = 0)
Nullish(v) == v.type \in {"null", "undefined"}
Times(a, b) == IF IsNum(a) /\ IsNum(b) THEN Num(a.n * b.n) ELSE NaN
Plus(a, b) == IF IsNum(a) /\ IsNum(b) THEN Num(a.n + b.n) ELSE NaN
Max(a, b) == IF a >= b THEN a ELSE b

Digits == <<"0", "1", "2", "3", "4", "5", "6", "7", "8", "9">>
DigitVal(c) == (CHOOSE i \in 1..10 : Digits[i] = c) - 1
IsDigit(c) == \E i \in 1..10 : Digits[i] = c

RECURSIVE NatToString(_)
NatToString(k) ==
  IF k < 10 THEN <<Digits[k + 1]>>
  ELSE Append(NatToString(k \div 10), Digits[(k % 10) + 1])

(* Number.prototype.toString, for the values the manager can hold *)
toString(v) ==
  IF IsNum(v) THEN NatToString(v.n) ELSE <<"N", "a", "N">>

RECURSIVE ParseDigits(_, _)
ParseDigits(s, acc) ==
  IF s = <<>> \/ ~IsDigit(Head(s)) THEN acc
  ELSE ParseDigits(Tail(s), acc * 10 + DigitVal(Head(s)))

(* parseInt(s, 10): leading decimal digits, NaN when there are none *)
ParseInt(s) ==
  IF s = <<>> \/ ~IsDigit(Head(s)) THEN NaN ELSE Num(ParseDigits(s, 0))

(* ------------------------------ state ---------------------------------- *)
VARIABLES
  currentTokenType,   \* this.currentTokenType
  tokenExpiry,        \* this.tokenExpiry (JS number | null)
  reexchangeTimer,    \* this.reexchangeTimer (handle, 0 = null)
  upgradeTimer,       \* this.upgradeTimer (handle, 0 = null)
  localStorage,       \* browserAPI.localStorage, the three zylo_* slots
  session,            \* access token of the Supabase client's session
  timers,             \* setTimeout callbacks armed and not yet fired
  gateway,            \* Control Plane: "up" answers 2xx, "down" fails
  tasks,              \* asynchronous operations in flight
  ev,                 \* the last step taken by an operation
  probe               \* the last request body built or error translated

vars == <<currentTokenType, tokenExpiry, reexchangeTimer, upgradeTimer,
          localStorage, session, timers, gateway, tasks, ev, probe>>

NoTimer == 0
NoProbe == [fn |-> "none"]
Absent == <<>>
EmptyStorage ==
  [k \in {TOKEN_KEY, TOKEN_EXPIRY_KEY, TOKEN_TYPE_KEY} |-> Absent]

(* the instance and what its methods mutate, as one value *)
Self ==
  [currentTokenType |-> currentTokenType,
   tokenExpiry      |-> tokenExpiry,
   reexchangeTimer  |-> reexchangeTimer,
   upgradeTimer     |-> upgradeTimer,
   localStorage     |-> localStorage,
   session          |-> session,
   timers           |-> timers]

Install(z) ==
  /\ currentTokenType' = z.currentTokenType
  /\ tokenExpiry' = z.tokenExpiry
  /\ reexchangeTimer' = z.reexchangeTimer
  /\ upgradeTimer' = z.upgradeTimer
  /\ localStorage' = z.localStorage
  /\ session' = z.session
  /\ timers' = z.timers

(* ------------------------------ timers --------------------------------- *)
(* handles are compared only with handles of the same purpose, so a handle *)
(* is a number unique among the timers and the held handle of its purpose  *)
TimerIds(z, kind) ==
  {x.id : x \in {y \in z.timers : y.kind = kind}}
  \cup {IF kind = "reexchange" THEN z.reexchangeTimer ELSE z.upgradeTimer}

FreshTimerId(z, kind) ==
  CHOOSE i \in 1..(Cardinality(TimerIds(z, kind)) + 1) :
    /\ i \notin TimerIds(z, kind)
    /\ \A j \in 1..(i - 1) : j \in TimerIds(z, kind)

setTimeout(z, kind, id, delay) ==
  z.timers \cup {[id |-> id, kind |-> kind, due |-> now + delay]}

clearTimeout(z, kind, id) ==
  [z EXCEPT !.timers = {x \in @ : ~(x.kind = kind /\ x.id = id)}]

clearReexchangeTimer(z) ==
  IF z.reexchangeTimer # NoTimer
  THEN [clearTimeout(z, "reexchange", z.reexchangeTimer)
          EXCEPT !.reexchangeTimer = NoTimer]
  ELSE z

clearUpgradeTimer(z) ==
  IF z.upgradeTimer # NoTimer
  THEN [clearTimeout(z, "upgrade", z.upgradeTimer)
          EXCEPT !.upgradeTimer = NoTimer]
  ELSE z

(* scheduleReexchange without its clearReexchangeTimer() *)
scheduleReexchangeNoClear(z) ==
  IF Falsy(z.tokenExpiry) THEN z
  ELSE LET renewAt == z.tokenExpiry.n - RenewBeforeMs
           delay == Max(0, renewAt - now)
           id == FreshTimerId(z, "reexchange")
       IN [z EXCEPT !.reexchangeTimer = id,
                    !.timers = setTimeout(z, "reexchange", id, delay)]

(* scheduleReexchange arming the timer at the expiry itself *)
scheduleReexchangeAtExpiry(z) ==
  LET z1 == clearReexchangeTimer(z) IN
  IF Falsy(z1.tokenExpiry) THEN z1
  ELSE LET delay == Max(0, z1.tokenExpiry.n - now)
           id == FreshTimerId(z1, "reexchange")
       IN [z1 EXCEPT !.reexchangeTimer = id,
                     !.timers = setTimeout(z1, "reexchange", id, delay)]

scheduleReexchange(z) ==
  LET z1 == clearReexchangeTimer(z) IN
  IF Falsy(z1.tokenExpiry) THEN z1
  ELSE LET renewAt == z1.tokenExpiry.n - RenewBeforeMs
           delay == Max(0, renewAt - now)
           id == FreshTimerId(z1, "reexchange")
       IN [z1 EXCEPT !.reexchangeTimer = id,
                     !.timers = setTimeout(z1, "reexchange", id, delay)]

scheduleUpgradeAttempt(z) ==
  LET z1 == clearUpgradeTimer(z)
      id == FreshTimerId(z1, "upgrade")
  IN [z1 EXCEPT !.upgradeTimer = id,
                !.timers = setTimeout(z1, "upgrade", id, UpgradeDelayMs)]

(* ---------------------------- token store ------------------------------ *)
(* setToken without its third setItem, the tier tag *)
setTokenNoTag(z, token, expiresIn) ==
  LET z1 == [z EXCEPT !.session = token] IN
  IF expiresIn # JSNull
  THEN LET expiryTime == Plus(Num(now), Times(expiresIn, Num(1000))) IN
       [z1 EXCEPT !.tokenExpiry = expiryTime,
                  !.localStorage =
                     [@ EXCEPT ![TOKEN_KEY] = <<token>>,
                               ![TOKEN_EXPIRY_KEY] = <<toString(expiryTime)>>]]
  ELSE [z1 EXCEPT !.tokenExpiry = JSNull,
                  !.localStorage = EmptyStorage]

(* setToken once supabase.auth.setSession has resolved *)
setToken(z, token, expiresIn) ==
  LET z1 == [z EXCEPT !.session = token] IN
  IF expiresIn # JSNull
  THEN LET expiryTime == Plus(Num(now), Times(expiresIn, Num(1000))) IN
       [z1 EXCEPT !.tokenExpiry = expiryTime,
                  !.localStorage =
                     [@ EXCEPT ![TOKEN_KEY] = <<token>>,
                               ![TOKEN_EXPIRY_KEY] = <<toString(expiryTime)>>,
                               ![TOKEN_TYPE_KEY] = <<z1.currentTokenType>>]]
  ELSE [z1 EXCEPT !.tokenExpiry = JSNull,
                  !.localStorage = EmptyStorage]

NoStored == [found |-> FALSE, token |-> "", expiry |-> JSNull, type |-> ""]

loadStoredToken(z) ==
  LET token == z.localStorage[TOKEN_KEY]
      expiry == z.localStorage[TOKEN_EXPIRY_KEY]
      type == z.localStorage[TOKEN_TYPE_KEY]
  IN IF \/ token = Absent \/ token[1] = ""
        \/ expiry = Absent \/ expiry[1] = <<>>
        \/ type = Absent \/ type[1] = ""
     THEN NoStored
     ELSE [found |-> TRUE, token |-> token[1],
           expiry |-> ParseInt(expiry[1]), type |-> type[1]]

(* isTokenExpired(expiry?): expiry ?? this.tokenExpiry *)
isTokenExpired(z, expiry) ==
  LET expiryTime == IF Nullish(expiry) THEN z.tokenExpiry ELSE expiry IN
  IF Falsy(expiryTime) THEN FALSE ELSE now >= expiryTime.n

getTokenStatus ==
  [type |-> currentTokenType,
   expiresAt |-> IF Falsy(tokenExpiry) THEN JSNull ELSE tokenExpiry,
   isExpired |-> isTokenExpired(Self, JSUndefined)]

isAuthenticated == session # NoSession

(* ------------------------- tasks and events ---------------------------- *)
(* An operation in flight is suspended at an awaited fetch or supabase.auth *)
(* call; pc names the call and the action of that name is its resolution   *)
(* together with the code that follows it.  setSession is awaited inside   *)
(* setToken and everything setToken writes is written after it, so the     *)
(* resolution of an exchange and the setToken that follows are one action. *)
Idle == [op |-> "none", pc |-> "idle", stored |-> NoStored, exch |-> FALSE]

(* one public call at a time, and one callback of each timer in flight *)
Slots == {"api", "renew", "upgrade"}
AllIdle == \A t \in Slots : tasks[t].pc = "idle"

NoEv == [op |-> "none", step |-> "init", succ |-> FALSE, tier0 |-> "",
         msg |-> <<>>]
Ev(op, step) == [NoEv EXCEPT !.op = op, !.step = step]

(* What an exchange endpoint answers when the Control Plane is "up": a   *)
(* 2xx, as a rule with both fields, possibly lacking expires_in.  When it *)
(* is "down" the exchange fails: network error, timeout or non-2xx.       *)
Responses(tok) ==
  {[access_token |-> tok, expires_in |-> Num(e)] : e \in ExpiresInSet}
  \cup {[access_token |-> tok, expires_in |-> JSUndefined]}
WellFormed(r) == r.access_token # Undefined /\ IsNum(r.expires_in)

ExchangeOutcomes(tok) ==
  IF gateway = "up"
  THEN {[ok |-> TRUE, body |-> r] : r \in Responses(tok)}
  ELSE {[ok |-> FALSE, body |-> [access_token |-> "", expires_in |-> JSNull]]}

(* the name of a step that applied response r *)
Applied(step, r) == IF WellFormed(r) THEN step ELSE "malformed"

(* -------------------------------- boot --------------------------------- *)
(* boot() up to its first suspension point, lines 187-209 *)
bootEnter(z, op) ==
  LET stored == loadStoredToken(z) IN
  IF stored.found /\ ~isTokenExpired(z, stored.expiry)
  THEN [Idle EXCEPT !.op = op, !.pc = "boot_restore", !.stored = stored]
  ELSE [Idle EXCEPT !.op = op, !.pc = "boot_exchange", !.exch = TRUE]

(* the restore path keeping the tier the instance has *)
bootRestoreKeepTier(z, stored) ==
  LET z1 == setToken(z, stored.token, JSNull)
      z2 == [z1 EXCEPT !.tokenExpiry = stored.expiry]
  IN scheduleReexchange(z2)

(* lines 199-204 *)
bootRestore(z, stored) ==
  LET z1 == setToken(z, stored.token, JSNull)
      z2 == [z1 EXCEPT !.currentTokenType = stored.type,
                       !.tokenExpiry = stored.expiry]
  IN scheduleReexchange(z2)

(* lines 210-213 *)
bootScoped(z, r) ==
  LET z1 == setToken(z, r.access_token, r.expires_in)
      z2 == [z1 EXCEPT !.currentTokenType = "SCOPED_ANON"]
  IN scheduleReexchange(z2)

(* the failure path without scheduleUpgradeAttempt() *)
fallbackNoRetry(z) ==
  LET z1 == setToken(z, supabaseAnonKey, JSNull)
  IN [z1 EXCEPT !.currentTokenType = "FALLBACK_ANON"]

(* lines 214-219, also the catch block of the renewal callback, 651-658 *)
fallback(z) ==
  LET z1 == setToken(z, supabaseAnonKey, JSNull)
      z2 == [z1 EXCEPT !.currentTokenType = "FALLBACK_ANON"]
  IN scheduleUpgradeAttempt(z2)

(* what runs after an awaited boot() returns to its caller: nothing in    *)
(* boot() and logout(), line 650 in the renewal callback                   *)
afterBoot(z, op) ==
  IF op = "renew" THEN scheduleReexchange(z) ELSE z

(* the steps of one boot() called right after another, nothing between *)
Chain(t) == t = "api" /\ tasks[t].op = "boot" /\ ev.succ

Boot ==
  /\ tasks["api"].pc = "idle"
  /\ tasks' = [tasks EXCEPT !["api"] = bootEnter(Self, "boot")]
  /\ ev' = [Ev("boot", "call") EXCEPT
              !.succ = /\ ev.op = "boot"
                       /\ ev.step \in {"restored", "bound"}
                       /\ AllIdle
                       /\ IsNum(tokenExpiry) /\ now < tokenExpiry.n,
              !.tier0 = IF ev.op = "boot" /\ ev.step \in {"restored", "bound"}
                        THEN currentTokenType ELSE ""]
  /\ UNCHANGED <<currentTokenType, tokenExpiry, reexchangeTimer, upgradeTimer,
                 localStorage, session, timers, gateway>>
  /\ UNCHANGED probe

BootRestore(t) ==
  /\ tasks[t].pc = "boot_restore"
  /\ Install(afterBoot(bootRestore(Self, tasks[t].stored), tasks[t].op))
  /\ tasks' = [tasks EXCEPT ![t] = Idle]
  /\ ev' = [Ev(tasks[t].op, "restored") EXCEPT
              !.succ = Chain(t),
              !.tier0 = IF Chain(t) THEN ev.tier0 ELSE ""]
  /\ UNCHANGED gateway
  /\ UNCHANGED probe

BootExchange(t) ==
  /\ tasks[t].pc = "boot_exchange"
  /\ \E r \in ExchangeOutcomes(ScopedAnonJwt) :
       IF r.ok
       THEN /\ Install(afterBoot(bootScoped(Self, r.body), tasks[t].op))
            /\ ev' = [Ev(tasks[t].op, Applied("bound", r.body)) EXCEPT
                        !.succ = Chain(t),
              !.tier0 = IF Chain(t) THEN ev.tier0 ELSE ""]
       ELSE /\ Install(afterBoot(fallback(Self), tasks[t].op))
            /\ ev' = [Ev(tasks[t].op, "fallback") EXCEPT
                        !.succ = Chain(t),
              !.tier0 = IF Chain(t) THEN ev.tier0 ELSE ""]
  /\ tasks' = [tasks EXCEPT ![t] = Idle]
  /\ UNCHANGED gateway
  /\ UNCHANGED probe

(* ------------------------------- messages ------------------------------ *)
(* error messages as word sequences; includes() is substring search *)
Includes(m, pat) ==
  \E i \in 1..(Len(m) - Len(pat) + 1) : SubSeq(m, i, i + Len(pat) - 1) = pat

MsgInvalidCredentials == <<"Invalid", "login", "credentials">>
MsgNoUserToken == <<"No", "user", "token", "returned", "from", "Supabase">>
MsgNoUserData ==
  <<"Signup", "succeeded", "but", "no", "user", "data", "returned">>
MsgSignupFailedStatus == <<"Signup", "failed", ":", "500">>
MsgAccountExists ==
  <<"An", "account", "with", "this", "username", "already", "exists", ".",
    "Please", "sign", "in", "instead", ".">>
MsgInvalidUsername ==
  <<"Invalid", "username", ".", "Please", "use", "only", "letters", "and",
    "numbers", ".">>
MsgWeakPassword ==
  <<"Password", "does", "not", "meet", "requirements", ".", "Please", "use",
    "a", "stronger", "password", ".">>
MsgCreationFailed ==
  <<"Account", "creation", "failed", ".", "Please", "try", "again", ".">>

(* what the Control Plane or Supabase can report *)
UpstreamMsgs ==
  {<<"User", "already", "registered">>}

(* the catch block of signUp, lines 333-346 *)
translate(m) ==
  IF Includes(m, <<"User", "already", "registered">>) THEN MsgAccountExists
  ELSE IF Includes(m, <<"Invalid", "email">>) THEN MsgInvalidUsername
  ELSE IF Includes(m, <<"Password">>) THEN MsgWeakPassword
  ELSE IF m # <<>> THEN m ELSE MsgCreationFailed

(* an error leaving login(): to the caller, or into signUp's catch block *)
raised(op, m) == IF op = "signUp" THEN translate(m) ELSE m

(* -------------------------------- login -------------------------------- *)
(* login() dropping the stored token when primary authentication fails *)
loginAuthClearsStore(op) ==
  /\ UNCHANGED probe
  /\ \/ /\ \E m \in {MsgInvalidCredentials, MsgNoUserToken} :
             ev' = [Ev(op, "login_raise") EXCEPT !.msg = raised(op, m)]
        /\ tasks' = [tasks EXCEPT !["api"] = Idle]
        /\ Install(setToken(Self, session, JSNull))
        /\ UNCHANGED gateway
     \/ /\ session' = SupabaseUserJwt
        /\ tasks' = [tasks EXCEPT !["api"] =
                       [Idle EXCEPT !.op = op, !.pc = "login_exchange"]]
        /\ ev' = Ev(op, "login_authenticated")
        /\ UNCHANGED <<currentTokenType, tokenExpiry, reexchangeTimer,
                       upgradeTimer, localStorage, timers, gateway>>

(* login() is called and signInWithPassword resolves, lines 353-374 *)
loginAuth(op) ==
  /\ \/ /\ \E m \in {MsgInvalidCredentials, MsgNoUserToken} :
             ev' = [Ev(op, "login_raise") EXCEPT !.msg = raised(op, m)]
        /\ tasks' = [tasks EXCEPT !["api"] = Idle]
        /\ UNCHANGED session
     \/ /\ session' = SupabaseUserJwt
        /\ tasks' = [tasks EXCEPT !["api"] =
                       [Idle EXCEPT !.op = op, !.pc = "login_exchange"]]
        /\ ev' = Ev(op, "login_authenticated")
  /\ UNCHANGED <<currentTokenType, tokenExpiry, reexchangeTimer, upgradeTimer,
                 localStorage, timers, gateway>>
  /\ UNCHANGED probe

Login ==
  /\ tasks["api"].pc = "idle"
  /\ loginAuth("login")

(* lines 375-377 *)
loginUpgrade(z, r) ==
  LET z1 == setToken(z, r.access_token, r.expires_in)
      z2 == [z1 EXCEPT !.currentTokenType = "USER_SCOPED"]
  IN scheduleReexchange(z2)

(* login() demoting the instance when the exchange fails *)
LoginExchangeDemotes ==
  /\ tasks["api"].pc = "login_exchange"
  /\ \E r \in ExchangeOutcomes(UserScopedJwt) :
       IF r.ok
       THEN /\ Install(loginUpgrade(Self, r.body))
            /\ ev' = Ev(tasks["api"].op, Applied("login_upgraded", r.body))
       ELSE /\ ev' = Ev(tasks["api"].op, "login_degraded")
            /\ Install(fallback(Self))
  /\ tasks' = [tasks EXCEPT !["api"] = Idle]
  /\ UNCHANGED gateway
  /\ UNCHANGED probe

(* exchangeForTenantUserScopedToken resolves or rejects, lines 374-382 *)
LoginExchange ==
  /\ tasks["api"].pc = "login_exchange"
  /\ \E r \in ExchangeOutcomes(UserScopedJwt) :
       IF r.ok
       THEN /\ Install(loginUpgrade(Self, r.body))
            /\ ev' = Ev(tasks["api"].op, Applied("login_upgraded", r.body))
       ELSE /\ ev' = Ev(tasks["api"].op, "login_degraded")
            /\ UNCHANGED <<currentTokenType, tokenExpiry, reexchangeTimer,
                           upgradeTimer, localStorage, session, timers>>
  /\ tasks' = [tasks EXCEPT !["api"] = Idle]
  /\ UNCHANGED gateway
  /\ UNCHANGED probe

(* ------------------------------- signUp -------------------------------- *)
(* the inner try/catch around the Control Plane signup, lines 257-288:     *)
(* TRUE when the thrown error is re-thrown, FALSE when signUp falls        *)
(* through to the direct Supabase signup                                   *)
rethrown(name, m) ==
  IF name = "AbortError" THEN FALSE
  ELSE Includes(m, <<"Signup", "failed">>)

(* signUp() is called and the Control Plane signup resolves, 236-288 *)
SignUp ==
  /\ tasks["api"].pc = "idle"
  /\ \/ /\ gateway = "up"                          \* res.ok
        /\ tasks' = [tasks EXCEPT !["api"] =
                       [Idle EXCEPT !.op = "signUp", !.pc = "signup_login"]]
        /\ ev' = Ev("signUp", "signup_ok")
     \/ /\ tasks' = [tasks EXCEPT !["api"] =     \* 404, timeout, unreachable
                       [Idle EXCEPT !.op = "signUp", !.pc = "signup_direct"]]
        /\ ev' = Ev("signUp", "signup_fallthrough")
     \/ \E m \in UpstreamMsgs \cup {MsgSignupFailedStatus} :
          IF rethrown("Error", m)
          THEN /\ UNCHANGED tasks
               /\ ev' = [Ev("signUp", "signup_raise") EXCEPT
                           !.msg = translate(m)]
          ELSE /\ tasks' = [tasks EXCEPT !["api"] =
                              [Idle EXCEPT !.op = "signUp", !.pc = "signup_direct"]]
               /\ ev' = [Ev("signUp", "signup_swallowed") EXCEPT !.msg = m]
  /\ UNCHANGED <<currentTokenType, tokenExpiry, reexchangeTimer, upgradeTimer,
                 localStorage, session, timers, gateway>>
  /\ UNCHANGED probe

(* login() called at line 270, inside the try of lines 257-278: what it
   throws is caught at line 279 like any error of the Control Plane call *)
signUpLoginAuth ==
  /\ \/ \E m \in {MsgInvalidCredentials, MsgNoUserToken} :
          IF rethrown("Error", m)
          THEN /\ tasks' = [tasks EXCEPT !["api"] = Idle]
               /\ ev' = [Ev("signUp", "signup_raise") EXCEPT
                           !.msg = translate(m)]
               /\ UNCHANGED session
          ELSE /\ tasks' = [tasks EXCEPT !["api"] =
                              [Idle EXCEPT !.op = "signUp", !.pc = "signup_direct"]]
               /\ ev' = [Ev("signUp", "login_swallowed") EXCEPT !.msg = m]
               /\ UNCHANGED session
     \/ /\ session' = SupabaseUserJwt
        /\ tasks' = [tasks EXCEPT !["api"] =
                       [Idle EXCEPT !.op = "signUp", !.pc = "login_exchange"]]
        /\ ev' = Ev("signUp", "login_authenticated")
  /\ UNCHANGED <<currentTokenType, tokenExpiry, reexchangeTimer, upgradeTimer,
                 localStorage, timers, gateway, probe>>

(* login() called by signUp, lines 270 and 332 *)
SignUpLogin ==
  /\ tasks["api"].pc \in {"signup_login", "login_auth"}
  /\ IF tasks["api"].pc = "signup_login"
     THEN signUpLoginAuth
     ELSE loginAuth("signUp")

(* the direct signup binding the session without declaring the tier *)
signUpSessionNoTier(z, expires_in) ==
  LET z0 == [z EXCEPT !.session = SupabaseUserJwt]
      z1 == setToken(z0, SupabaseUserJwt,
                     IF Falsy(expires_in) THEN JSNull ELSE expires_in)
  IN scheduleReexchange(z1)

(* lines 325-327 *)
signUpSession(z, expires_in) ==
  LET z0 == [z EXCEPT !.session = SupabaseUserJwt]
      z1 == setToken(z0, SupabaseUserJwt,
                     IF Falsy(expires_in) THEN JSNull ELSE expires_in)
      z2 == [z1 EXCEPT !.currentTokenType = "USER_SCOPED"]
  IN scheduleReexchange(z2)

(* supabase.auth.signUp resolves, lines 293-332 *)
SignUpDirect ==
  /\ tasks["api"].pc = "signup_direct"
  /\ \/ /\ \E m \in UpstreamMsgs \cup {MsgNoUserData} :
             ev' = [Ev("signUp", "signup_raise") EXCEPT !.msg = translate(m)]
        /\ tasks' = [tasks EXCEPT !["api"] = Idle]
        /\ UNCHANGED <<currentTokenType, tokenExpiry, reexchangeTimer,
                       upgradeTimer, localStorage, session, timers>>
     \/ /\ \E e \in {Num(x) : x \in ExpiresInSet} \cup {JSUndefined} :
             /\ Install(signUpSession(Self, e))
             /\ ev' = Ev("signUp", IF IsNum(e) THEN "signup_bound"
                                    ELSE "malformed")
        /\ tasks' = [tasks EXCEPT !["api"] = Idle]
     \/ /\ tasks' = [tasks EXCEPT !["api"].pc = "login_auth"]
        /\ ev' = Ev("signUp", "signup_nosession")
        /\ UNCHANGED <<currentTokenType, tokenExpiry, reexchangeTimer,
                       upgradeTimer, localStorage, session, timers>>
  /\ UNCHANGED gateway
  /\ UNCHANGED probe

(* ------------------------------- logout -------------------------------- *)
(* logout() is called and signOut resolves; timers cleared; boot() entered *)
Logout ==
  /\ tasks["api"].pc = "idle"
  /\ LET z1 == [Self EXCEPT !.session = NoSession]
         z2 == clearUpgradeTimer(clearReexchangeTimer(z1))
     IN /\ Install(z2)
        /\ tasks' = [tasks EXCEPT !["api"] = bootEnter(z2, "logout")]
  /\ ev' = Ev("logout", "signed_out")
  /\ UNCHANGED gateway
  /\ UNCHANGED probe

cleanup(z) == clearUpgradeTimer(clearReexchangeTimer(z))

Cleanup ==
  /\ Install(cleanup(Self))
  /\ ev' = Ev("cleanup", "done")
  /\ UNCHANGED <<gateway, tasks>>
  /\ UNCHANGED probe

(* --------------------------- renewal callback -------------------------- *)
(* the setTimeout callback of scheduleReexchange, lines 623-659 *)
FireReexchange ==
  /\ tasks["renew"].pc = "idle"
  /\ \E x \in timers :
       /\ x.kind = "reexchange" /\ x.due <= now
       /\ LET z == [Self EXCEPT !.timers = @ \ {x}] IN
          IF currentTokenType = "USER_SCOPED"
          THEN /\ Install(z)
               /\ tasks' = [tasks EXCEPT !["renew"] =
                              [Idle EXCEPT !.op = "renew", !.pc = "renew_session"]]
          ELSE IF currentTokenType = "SCOPED_ANON"
          THEN /\ Install(z)
               /\ tasks' = [tasks EXCEPT !["renew"] =
                              [Idle EXCEPT !.op = "renew", !.pc = "renew_anon"]]
          ELSE /\ Install(scheduleReexchange(z))
               /\ UNCHANGED tasks
  /\ ev' = Ev("renew", "fired")
  /\ UNCHANGED gateway
  /\ UNCHANGED probe

(* getSession resolves, lines 629-641: with the session the client      *)
(* holds, or with none because that session has ended elsewhere           *)
RenewSession ==
  /\ tasks["renew"].pc = "renew_session"
  /\ \E live \in {session, NoSession} :
       /\ session' = live
       /\ IF live \notin {NoSession, Undefined}
          THEN tasks' = [tasks EXCEPT !["renew"].pc = "renew_user"]
          ELSE tasks' = [tasks EXCEPT !["renew"] = bootEnter(Self, "renew")]
  /\ ev' = Ev("renew", "session")
  /\ UNCHANGED <<currentTokenType, tokenExpiry, reexchangeTimer, upgradeTimer,
                 localStorage, timers, gateway>>
  /\ UNCHANGED probe

(* lines 635/645 and 650 *)
renewed(z, r) ==
  scheduleReexchange(setToken(z, r.access_token, r.expires_in))

(* the renewal callback keeping its tier and token when the exchange fails *)
RenewExchangeKeeps ==
  /\ tasks["renew"].pc \in {"renew_user", "renew_anon"}
  /\ \E r \in ExchangeOutcomes(IF tasks["renew"].pc = "renew_user"
                               THEN UserScopedJwt ELSE ScopedAnonJwt) :
       IF r.ok
       THEN /\ Install(renewed(Self, r.body))
            /\ ev' = Ev("renew", Applied("renewed", r.body))
       ELSE /\ Install(scheduleUpgradeAttempt(Self))
            /\ ev' = Ev("renew", "demoted")
  /\ tasks' = [tasks EXCEPT !["renew"] = Idle]
  /\ UNCHANGED gateway
  /\ UNCHANGED probe

RenewExchange ==
  /\ tasks["renew"].pc \in {"renew_user", "renew_anon"}
  /\ \E r \in ExchangeOutcomes(IF tasks["renew"].pc = "renew_user"
                               THEN UserScopedJwt ELSE ScopedAnonJwt) :
       IF r.ok
       THEN /\ Install(renewed(Self, r.body))
            /\ ev' = Ev("renew", Applied("renewed", r.body))
       ELSE /\ Install(fallback(Self))
            /\ ev' = Ev("renew", "demoted")
  /\ tasks' = [tasks EXCEPT !["renew"] = Idle]
  /\ UNCHANGED gateway
  /\ UNCHANGED probe

(* --------------------------- upgrade callback -------------------------- *)
(* the setTimeout callback of scheduleUpgradeAttempt, lines 668-682 *)
FireUpgrade ==
  /\ tasks["upgrade"].pc = "idle"
  /\ \E x \in timers :
       /\ x.kind = "upgrade" /\ x.due <= now
       /\ timers' = timers \ {x}
  /\ tasks' = [tasks EXCEPT !["upgrade"] =
                 [Idle EXCEPT !.op = "upgrade", !.pc = "upgrade_exchange"]]
  /\ ev' = Ev("upgrade", "fired")
  /\ UNCHANGED <<currentTokenType, tokenExpiry, reexchangeTimer, upgradeTimer,
                 localStorage, session, gateway>>
  /\ UNCHANGED probe

(* lines 673-675 *)
upgraded(z, r) ==
  LET z1 == setToken(z, r.access_token, r.expires_in)
      z2 == [z1 EXCEPT !.currentTokenType = "SCOPED_ANON"]
  IN scheduleReexchange(z2)

(* the upgrade callback giving up after a failed attempt *)
UpgradeExchangeNoRetry ==
  /\ tasks["upgrade"].pc = "upgrade_exchange"
  /\ \E r \in ExchangeOutcomes(ScopedAnonJwt) :
       IF r.ok
       THEN /\ Install(upgraded(Self, r.body))
            /\ ev' = Ev("upgrade", Applied("upgraded", r.body))
       ELSE /\ ev' = Ev("upgrade", "retry")
            /\ UNCHANGED <<currentTokenType, tokenExpiry, reexchangeTimer,
                           upgradeTimer, localStorage, session, timers>>
  /\ tasks' = [tasks EXCEPT !["upgrade"] = Idle]
  /\ UNCHANGED gateway
  /\ UNCHANGED probe

UpgradeExchange ==
  /\ tasks["upgrade"].pc = "upgrade_exchange"
  /\ \E r \in ExchangeOutcomes(ScopedAnonJwt) :
       IF r.ok
       THEN /\ Install(upgraded(Self, r.body))
            /\ ev' = Ev("upgrade", Applied("upgraded", r.body))
       ELSE /\ Install(scheduleUpgradeAttempt(Self))
            /\ ev' = Ev("upgrade", "retry")
  /\ tasks' = [tasks EXCEPT !["upgrade"] = Idle]
  /\ UNCHANGED gateway
  /\ UNCHANGED probe

(* ----------------------------- environment ----------------------------- *)
(* Time passes, between operations (an operation in flight lasts no      *)
(* longer than its 10-30 s timeouts), until the next instant the program   *)
(* holds a timestamp for: an expiry, a stored expiry, a timer falling due. *)
(* Timestamps move towards the past by the time elapsed; one that is not   *)
(* after the present stays at the present, the code only compares it with  *)
(* Date.now().                                                             *)
Instants ==
  {x.due : x \in timers}
  \cup (IF IsNum(tokenExpiry) THEN {tokenExpiry.n} ELSE {})
  \cup (IF localStorage[TOKEN_EXPIRY_KEY] # Absent
           /\ IsNum(ParseInt(localStorage[TOKEN_EXPIRY_KEY][1]))
        THEN {ParseInt(localStorage[TOKEN_EXPIRY_KEY][1]).n} ELSE {})
Elapsed ==
  LET later == {x - now : x \in {y \in Instants : y > now}} IN
  CHOOSE d \in later : \A e \in later : d <= e
Rebase(k) == Max(now, k - Elapsed)
RebaseJS(v) == IF IsNum(v) THEN Num(Rebase(v.n)) ELSE v
RebaseSlot(s) == IF s = Absent THEN s ELSE <<toString(RebaseJS(ParseInt(s[1])))>>

Tick ==
  /\ AllIdle
  /\ \E x \in Instants : x > now
  /\ tokenExpiry' = RebaseJS(tokenExpiry)
  /\ localStorage' =
       [localStorage EXCEPT ![TOKEN_EXPIRY_KEY] = RebaseSlot(@)]
  /\ timers' = {[x EXCEPT !.due = Rebase(@)] : x \in timers}
  /\ UNCHANGED <<currentTokenType, reexchangeTimer, upgradeTimer, session,
                 gateway, tasks, ev>>
  /\ UNCHANGED probe

GatewayFlip ==
  /\ gateway' = IF gateway = "up" THEN "down" ELSE "up"
  /\ UNCHANGED <<currentTokenType, tokenExpiry, reexchangeTimer, upgradeTimer,
                 localStorage, session, timers, tasks, ev>>
  /\ UNCHANGED probe

(* --------------------------- request bodies ---------------------------- *)
(* A string of the configuration is a sequence of characters, or absent.  *)
NoString == [defined |-> FALSE, chars |-> <<>>]
String(c) == [defined |-> TRUE, chars |-> c]

IsSpace(c) == c \in {" ", "\t"}

RECURSIVE trimStart(_)
trimStart(c) ==
  IF c = <<>> THEN c
  ELSE IF IsSpace(Head(c)) THEN trimStart(Tail(c)) ELSE c

RECURSIVE trimEnd(_)
trimEnd(c) ==
  IF c = <<>> THEN c
  ELSE IF IsSpace(c[Len(c)]) THEN trimEnd(SubSeq(c, 1, Len(c) - 1)) ELSE c

trim(c) == trimEnd(trimStart(c))

(* this.config.signedAppContext && this.config.signedAppContext.trim() *)
hasSignedContext(config) ==
  /\ config.signedAppContext.defined
  /\ config.signedAppContext.chars # <<>>
  /\ trim(config.signedAppContext.chars) # <<>>

(* the body of the four Control Plane calls that carry the context only: *)
(* lines 408-416, 448-455, 480-487, 522-529                              *)
contextBody(config) ==
  IF hasSignedContext(config)
  THEN [signedContext |-> config.signedAppContext]
  ELSE [tenantId |-> config.tenantId, projectId |-> config.projectId]

(* the body of the Control Plane signup, lines 241-252 *)
signUpBody(config, email, password) ==
  IF hasSignedContext(config)
  THEN [email |-> email, password |-> password,
        signedContext |-> config.signedAppContext]
  ELSE [email |-> email, password |-> password,
        tenantId |-> config.tenantId, projectId |-> config.projectId]

(* options.data of supabase.auth.signUp, lines 298-305, for a call of    *)
(* signUp(email, password) without userData                               *)
signUpMetadata(config) ==
  [full_name |-> NoString, username |-> NoString, avatar_url |-> NoString,
   tenant_id |-> config.tenantId, project_id |-> config.projectId]

Endpoints ==
  {"/api/supabase/boot", "/api/supabase/exchange-token",
   "/api/supabase/tenant-users/exchange-token",
   "/api/supabase/tenant-users/ensure-table"}

(* the configurations and the upstream messages the functions are        *)
(* applied to                                                             *)
Configs ==
  [signedAppContext : {NoString, String(<<>>), String(<<" ">>),
                       String(<<"s", "c">>), String(<<" ", "s", "c", "\t">>)},
   tenantId : {String(<<"t", "1">>), String(<<"t", "2">>)},
   projectId : {String(<<"p", "1">>), String(<<"p", "2">>)}]

Messages ==
  {<<"User", "already", "registered">>,
   <<"Email", "already", "registered">>,
   <<"Invalid", "email">>,
   <<"Unable", "to", "validate", "email", "address", ":", "invalid", "email">>,
   <<"Password", "should", "be", "at", "least", "6", "characters">>,
   <<"Your", "password", "is", "too", "short">>,
   <<"User", "already", "registered", "with", "this", "Password">>,
   MsgSignupFailedStatus, MsgNoUserData, <<>>}

Inputs == {[fn |-> "input", config |-> c, arg |-> m] :
             c \in Configs, m \in Messages}

Built(fn, out) ==
  [fn |-> fn, config |-> probe.config, arg |-> probe.arg, out |-> out]

Rest == <<currentTokenType, tokenExpiry, reexchangeTimer, upgradeTimer,
          localStorage, session, timers, gateway, tasks, ev>>

BuildContextBody ==
  /\ \E e \in Endpoints : probe' = Built(e, contextBody(probe.config))
  /\ UNCHANGED Rest

BuildSignUpBody ==
  /\ probe' = Built("/api/supabase/tenant-users/signup",
                    signUpBody(probe.config, "a@b.c", "pw"))
  /\ UNCHANGED Rest

BuildSignUpMetadata ==
  /\ probe' = Built("supabase.auth.signUp", signUpMetadata(probe.config))
  /\ UNCHANGED Rest

Translate ==
  /\ probe' = Built("translate", translate(probe.arg))
  /\ UNCHANGED Rest

(* -------------------------- initial state ------------------------------ *)
Constructed ==
  /\ currentTokenType = "FALLBACK_ANON"
  /\ tokenExpiry = JSNull
  /\ reexchangeTimer = NoTimer
  /\ upgradeTimer = NoTimer
  /\ localStorage = EmptyStorage
  /\ session = NoSession
  /\ timers = {}
  /\ gateway \in {"up", "down"}
  /\ tasks = [t \in Slots |-> Idle]
  /\ ev = NoEv

Init == Constructed /\ probe = NoProbe

Next ==
  \/ Boot
  \/ \E t \in {"api", "renew"} : BootRestore(t)
  \/ \E t \in {"api", "renew"} : BootExchange(t)
  \/ Login \/ LoginExchange
  \/ SignUp \/ SignUpLogin \/ SignUpDirect
  \/ Logout
  \/ Cleanup
  \/ FireReexchange \/ RenewSession \/ RenewExchange
  \/ FireUpgrade \/ UpgradeExchange
  \/ Tick
  \/ GatewayFlip

Spec == Init /\ [][Next]_vars

(* The request bodies and the error translation, applied to every        *)
(* configuration and upstream message of Configs and Messages.            *)
PureInit == Constructed /\ probe \in Inputs

PureNext ==
  \/ BuildContextBody
  \/ BuildSignUpBody
  \/ BuildSignUpMetadata
  \/ Translate

PureSpec == PureInit /\ [][PureNext]_vars

(* A manager left to itself after boot(): no login, signUp, logout or      *)
(* cleanup.  A timer that is due runs, a request in flight resolves or     *)
(* times out (10-30 s aborts), and time passes.                            *)
LiveNext ==
  \/ Boot
  \/ BootRestore("api")
  \/ BootExchange("api")
  \/ FireReexchange \/ RenewExchange
  \/ FireUpgrade \/ UpgradeExchange
  \/ Tick
  \/ GatewayFlip

LiveSpec ==
  /\ Init /\ [][LiveNext]_vars
  /\ WF_vars(BootRestore("api")) /\ WF_vars(BootExchange("api"))
  /\ WF_vars(FireReexchange) /\ WF_vars(RenewExchange)
  /\ WF_vars(FireUpgrade) /\ WF_vars(UpgradeExchange)
  /\ WF_vars(Tick)

(* ============================== properties ============================= *)
Armed(kind) == {x \in timers : x.kind = kind}
RenewalArmed == \E x \in timers : x.kind = "reexchange" /\ x.id = reexchangeTimer
UpgradeArmed == \E x \in timers : x.kind = "upgrade" /\ x.id = upgradeTimer
Frame == <<currentTokenType, tokenExpiry, localStorage, timers,
           reexchangeTimer, upgradeTimer>>
BootPcs == {"boot_restore", "boot_exchange"}
BootDone == {"restored", "bound", "malformed", "fallback"}

(* C1: in every reachable state the tier is one of the three tiers, and   *)
(* when the tier is FALLBACK_ANON getTokenStatus().expiresAt is null.      *)
C1_FallbackHasNoExpiry ==
  /\ currentTokenType \in TokenType
  /\ currentTokenType = "FALLBACK_ANON" => getTokenStatus.expiresAt = JSNull

(* C2: in every reachable state, when the tier is SCOPED_ANON or           *)
(* USER_SCOPED the manager holds a defined expiry (a number).              *)
C2_ScopedHasExpiry ==
  currentTokenType \in {"SCOPED_ANON", "USER_SCOPED"} => IsNum(tokenExpiry)

(* C3: at most one renewal timer and at most one upgrade-retry timer are   *)
(* armed, and an armed timer is the one whose handle the instance holds,   *)
(* so that arming a timer of its kind cancels it.                          *)
C3_OneTimerPerKind ==
  /\ Cardinality(Armed("reexchange")) <= 1
  /\ Cardinality(Armed("upgrade")) <= 1
  /\ \A x \in Armed("reexchange") : x.id = reexchangeTimer
  /\ \A x \in Armed("upgrade") : x.id = upgradeTimer

(* a renewal has re-armed the renewal timer while an upgrade-retry timer   *)
(* is armed as well                                                        *)
C3_Witness ==
  /\ ev.op = "renew" /\ ev.step = "renewed"
  /\ RenewalArmed /\ UpgradeArmed

(* C4: when boot() found no valid stored record and its exchange failed,   *)
(* boot has returned and tier = FALLBACK_ANON, the expiry is null,         *)
(* isExpired is false, the anon key is bound, the store is empty and the   *)
(* upgrade-retry timer is armed.                                           *)
C4_BootFallsBack ==
  (ev.step = "fallback") =>
     /\ \A t \in {"api", "renew"} : tasks[t].op = ev.op => tasks[t].pc = "idle"
     /\ currentTokenType = "FALLBACK_ANON"
     /\ tokenExpiry = JSNull
     /\ getTokenStatus.expiresAt = JSNull
     /\ ~getTokenStatus.isExpired
     /\ session = supabaseAnonKey
     /\ localStorage = EmptyStorage
     /\ UpgradeArmed

(* boot() has fallen back *)
C4_Witness ==
  /\ ev.op = "boot" /\ ev.step = "fallback"
  /\ session = supabaseAnonKey /\ UpgradeArmed

(* C5: boot() finding a complete, non-expired record in the store takes    *)
(* the restore path, issues no exchange, and when it returns the tier and  *)
(* the expiry are the stored ones, the stored token is bound and the       *)
(* renewal timer is armed.                                                 *)
ValidRecord ==
  LET stored == loadStoredToken(Self) IN
  stored.found /\ IsNum(stored.expiry) /\ now < stored.expiry.n

C5_RestoreStored ==
  [][\A t \in {"api", "renew"} :
       /\ (tasks[t].pc \notin BootPcs /\ tasks'[t].pc \in BootPcs
           /\ ValidRecord)
          => /\ tasks'[t].pc = "boot_restore"
             /\ ~tasks'[t].exch
             /\ tasks'[t].stored = loadStoredToken(Self)
       /\ (tasks[t].pc = "boot_restore" /\ tasks'[t] # tasks[t]
           /\ IsNum(tasks[t].stored.expiry))
          => /\ tasks'[t].pc = "idle"
             /\ currentTokenType' = tasks[t].stored.type
             /\ tokenExpiry' = tasks[t].stored.expiry
             /\ session' = tasks[t].stored.token
             /\ RenewalArmed'
    ]_vars

(* boot() has restored a record whose tier is not the tier boot() would    *)
(* obtain from the gateway                                                 *)
C5_Witness ==
  /\ ev.op = "boot" /\ ev.step = "restored"
  /\ currentTokenType = "USER_SCOPED"
  /\ session = UserScopedJwt
  /\ IsNum(tokenExpiry) /\ RenewalArmed

(* C6: a boot() called right after a boot() that left a still-valid token, *)
(* nothing in between, leaves the tier of the first boot() and issues no   *)
(* exchange request.                                                       *)
C6_BootIdempotent ==
  (ev.op = "boot" /\ ev.succ /\ ev.step \in BootDone) =>
     /\ currentTokenType = ev.tier0
     /\ ev.step = "restored"

(* C7: an upgrade-retry attempt made while the gateway is unreachable      *)
(* leaves the tier and re-arms the upgrade-retry timer; an attempt the     *)
(* reachable gateway answers sets tier = SCOPED_ANON and arms renewal,     *)
(* with no boot() called; and if the gateway eventually stays reachable, a *)
(* manager whose boot() fell back eventually leaves FALLBACK_ANON.         *)
UpgradeAttempt ==
  tasks["upgrade"].pc = "upgrade_exchange" /\ tasks'["upgrade"].pc = "idle"

C7_SelfHealing ==
  /\ [][/\ (UpgradeAttempt /\ gateway = "down")
           => /\ ev'.step = "retry"
              /\ currentTokenType' = currentTokenType
              /\ UpgradeArmed'
        /\ (UpgradeAttempt /\ gateway = "up" /\ ev'.step = "upgraded")
           => /\ currentTokenType' = "SCOPED_ANON"
              /\ RenewalArmed'
              /\ tasks'["api"] = tasks["api"]
       ]_vars
  /\ (<>[](gateway = "up"))
       => [](ev.op = "boot" /\ ev.step = "fallback"
               => <>(currentTokenType # "FALLBACK_ANON"))

(* an upgrade-retry attempt has promoted an instance that had fallen back *)
C7_Witness ==
  /\ ev.op = "upgrade" /\ ev.step = "upgraded"
  /\ currentTokenType = "SCOPED_ANON" /\ RenewalArmed
  /\ ~UpgradeArmed

(* C8: login() raises only out of the primary authentication, never out   *)
(* of the exchange that follows it, and the step that raises leaves tier,  *)
(* expiry, store and both timers as they were.                             *)
C8_LoginRaises ==
  [][/\ (ev'.step = "login_raise" /\ ev' # ev)
        => /\ tasks["api"].pc \in {"idle", "login_auth"}
           /\ tasks'["api"].pc = "idle"
           /\ ev'.msg \in {MsgInvalidCredentials, MsgNoUserToken}
           /\ UNCHANGED Frame
     /\ (tasks["api"].pc = "login_exchange" /\ tasks'["api"] # tasks["api"])
        => /\ tasks'["api"].pc = "idle"
           /\ ev'.step \in {"login_upgraded", "login_degraded", "malformed"}
    ]_vars

(* login() has raised on an instance holding a stored token and a timer *)
C8_Witness ==
  /\ ev.op = "login" /\ ev.step = "login_raise"
  /\ ev.msg = MsgInvalidCredentials
  /\ localStorage # EmptyStorage /\ RenewalArmed

(* C9: when the primary authentication of login() succeeds and the         *)
(* exchange fails, login() returns without raising, the session is the     *)
(* one signInWithPassword opened, and neither step of login() changes      *)
(* tier, expiry, store or timers.                                          *)
C9_LoginDegraded ==
  [][/\ (ev'.step = "login_authenticated" /\ ev' # ev)
        => /\ session' = SupabaseUserJwt
           /\ UNCHANGED Frame
     /\ (tasks["api"].pc = "login_exchange" /\ tasks'["api"] # tasks["api"]
         /\ gateway = "down")
        => /\ tasks'["api"].pc = "idle"
           /\ ev'.step = "login_degraded"
           /\ session' = session
           /\ UNCHANGED Frame
    ]_vars

(* login() has returned degraded: authenticated, tier not promoted *)
C9_Witness ==
  /\ ev.op = "login" /\ ev.step = "login_degraded"
  /\ session = SupabaseUserJwt /\ isAuthenticated
  /\ currentTokenType = "SCOPED_ANON" /\ RenewalArmed

(* C10: when login() has returned after a successful exchange, tier =      *)
(* USER_SCOPED, the store holds the exchanged token, the tag USER_SCOPED   *)
(* and the new expiry, the exchanged token is bound and the renewal timer  *)
(* is armed.                                                               *)
C10_LoginUpgraded ==
  (ev.step = "login_upgraded") =>
     /\ tasks["api"].pc = "idle"
     /\ currentTokenType = "USER_SCOPED"
     /\ IsNum(tokenExpiry)
     /\ localStorage[TOKEN_KEY] = <<UserScopedJwt>>
     /\ localStorage[TOKEN_EXPIRY_KEY] = <<toString(tokenExpiry)>>
     /\ localStorage[TOKEN_TYPE_KEY] = <<"USER_SCOPED">>
     /\ session = UserScopedJwt
     /\ RenewalArmed

(* C11: once logout() has completed the tier is SCOPED_ANON or            *)
(* FALLBACK_ANON, never USER_SCOPED, and the timers armed are those the    *)
(* boot() it re-ran arms: the renewal timer after a restore or an          *)
(* exchange, the upgrade-retry timer after a fallback.                     *)
C11_LogoutLeavesUserTier ==
  (ev.op = "logout" /\ ev.step \in BootDone) =>
     /\ tasks["api"].pc = "idle"
     /\ currentTokenType \in {"SCOPED_ANON", "FALLBACK_ANON"}
     /\ ev.step = "fallback" => Armed("reexchange") = {}
     /\ ev.step # "fallback" => Armed("upgrade") = {}

(* C12: when logout() has just completed isAuthenticated() is false: the   *)
(* Supabase client holds no session, and no token issued for a user.       *)
C12_LogoutNotAuthenticated ==
  (ev.op = "logout" /\ ev.step \in BootDone) =>
     /\ ~isAuthenticated
     /\ session \notin {UserScopedJwt, SupabaseUserJwt}

(* C13: a renewal callback whose exchange fails ends with tier =           *)
(* FALLBACK_ANON, no expiry, the store cleared, the anon key bound and the *)
(* upgrade-retry timer armed.                                              *)
C13_RenewalFailureDemotes ==
  [][(/\ tasks["renew"].pc \in {"renew_user", "renew_anon"}
      /\ tasks'["renew"] # tasks["renew"]
      /\ gateway = "down")
     => /\ tasks'["renew"].pc = "idle"
        /\ ev'.step = "demoted"
        /\ currentTokenType' = "FALLBACK_ANON"
        /\ tokenExpiry' = JSNull
        /\ localStorage' = EmptyStorage
        /\ session' = supabaseAnonKey
        /\ UpgradeArmed'
    ]_vars

(* a renewal has failed and demoted the instance *)
C13_Witness ==
  /\ ev.op = "renew" /\ ev.step = "demoted"
  /\ currentTokenType = "FALLBACK_ANON" /\ tokenExpiry = JSNull
  /\ localStorage = EmptyStorage /\ UpgradeArmed

(* C14: whenever the upgrade-retry timer is armed or an upgrade-retry      *)
(* callback is running, the tier is FALLBACK_ANON.                         *)
C14_UpgradeOnlyInFallback ==
  (UpgradeArmed \/ tasks["upgrade"].pc # "idle") =>
     currentTokenType = "FALLBACK_ANON"

(* C15: a renewal exchange that resolves right after a login() or a        *)
(* logout() completed while it was in flight does not apply its result:    *)
(* tier, expiry, store and bound token stay as that operation left them.   *)
LoginDone == {"login_upgraded", "login_degraded"}

C15_StaleRenewalDiscarded ==
  [][(/\ \/ ev.op = "login" /\ ev.step \in LoginDone
         \/ ev.op = "logout" /\ ev.step \in BootDone
      /\ tasks["renew"].pc \in {"renew_user", "renew_anon"}
      /\ tasks'["renew"] # tasks["renew"])
     => UNCHANGED <<currentTokenType, tokenExpiry, localStorage, session>>
    ]_vars

(* C16: a renewal callback and an upgrade-retry callback are never both    *)
(* between their start and their completion.                               *)
C16_CallbacksNeverOverlap ==
  ~(tasks["renew"].pc # "idle" /\ tasks["upgrade"].pc # "idle")

(* C17: after cleanup() a step that is not a step of a public call arms no *)
(* timer: no timer is armed when cleanup() has run, and none is after the  *)
(* step that follows it, an exchange resolving included.                   *)
C17_CleanupIsFinal ==
  [][(ev.op = "cleanup" /\ tasks'["api"] = tasks["api"])
     => (timers = {} /\ timers' = {})
    ]_vars

(* C18: an exchange of a renewal or upgrade-retry callback that resolves   *)
(* right after cleanup() has run is discarded: tier, expiry, store and     *)
(* bound token are what they were when cleanup() ran.                      *)
C18_LateExchangeDiscarded ==
  [][(/\ ev.op = "cleanup"
      /\ \/ /\ tasks["renew"].pc \in {"renew_user", "renew_anon"}
            /\ tasks'["renew"] # tasks["renew"]
         \/ /\ tasks["upgrade"].pc = "upgrade_exchange"
            /\ tasks'["upgrade"] # tasks["upgrade"])
     => UNCHANGED <<currentTokenType, tokenExpiry, localStorage, session>>
    ]_vars

(* C19: with no operation in flight, the token bound to the Supabase       *)
(* session is a token of the tier the instance reports.                    *)
TokensOf(tier) ==
  IF tier = "USER_SCOPED" THEN {UserScopedJwt, SupabaseUserJwt}
  ELSE IF tier = "SCOPED_ANON" THEN {ScopedAnonJwt}
  ELSE {supabaseAnonKey, NoSession}

C19_SessionMatchesTier ==
  AllIdle => session \in TokensOf(currentTokenType)

C21_ServerErrorIsFatal ==
  [][(/\ tasks["api"].pc = "idle"
      /\ ev' # ev
      /\ ev'.op = "signUp"
      /\ ev'.step \in {"signup_raise", "signup_swallowed"})
       => /\ ev'.step = "signup_raise"
          /\ tasks'["api"].pc = "idle"
          /\ UNCHANGED Frame
    ]_vars

(* C23: the three slots of the store are all present or all absent, and  *)
(* a read of a store with any slot missing reports no stored token.       *)
StoreKeys == {TOKEN_KEY, TOKEN_EXPIRY_KEY, TOKEN_TYPE_KEY}

Without(K) ==
  [Self EXCEPT !.localStorage =
     [k \in StoreKeys |-> IF k \in K THEN Absent ELSE localStorage[k]]]

C23_StoreAllOrNone ==
  /\ \/ \A k \in StoreKeys : localStorage[k] = Absent
     \/ \A k \in StoreKeys : localStorage[k] # Absent
  /\ \A K \in (SUBSET StoreKeys) \ {{}} :
       loadStoredToken(Without(K)) = NoStored

(* an exchange has written a complete record, which a read finds *)
C23_Witness ==
  /\ ev.step = "bound"
  /\ \A k \in StoreKeys : localStorage[k] # Absent
  /\ loadStoredToken(Self).found

(* C24: when an exchange answers 2xx with a body that lacks access_token *)
(* or expires_in, the operation that issued it (boot, login, renewal,     *)
(* upgrade retry) is rejected and the tier, the expiry and the store are  *)
(* as they were before.                                                   *)
ExchangePcs ==
  {"boot_exchange", "login_exchange", "renew_user", "renew_anon",
   "upgrade_exchange"}

C24_MalformedRejected ==
  [][(/\ ev'.step = "malformed"
      /\ ev' # ev
      /\ \E t \in Slots : /\ tasks[t].pc \in ExchangePcs
                          /\ tasks'[t] # tasks[t])
       => UNCHANGED <<currentTokenType, tokenExpiry, localStorage>>
    ]_vars

(* C27: when the renewal callback finds no live session in USER_SCOPED   *)
(* and runs boot() again, at the end of that boot() the tier is           *)
(* SCOPED_ANON or FALLBACK_ANON and the user-scoped token is not bound.   *)
C27_RenewalWithoutSessionReboots ==
  [][(/\ tasks["renew"].op = "renew"
      /\ tasks["renew"].pc \in BootPcs
      /\ tasks'["renew"].pc = "idle")
       => /\ currentTokenType' \in {"SCOPED_ANON", "FALLBACK_ANON"}
          /\ session' # UserScopedJwt
    ]_vars

(* C29: when an operation that persists a token has completed (boot      *)
(* exchange, login, direct signup, renewal, upgrade retry), the tier tag  *)
(* in the store is the tier the instance holds.                           *)
Persisted == {"bound", "renewed", "upgraded", "login_upgraded", "signup_bound"}

C29_TagIsHeldTier ==
  (ev.step \in Persisted)
     => localStorage[TOKEN_TYPE_KEY] = <<currentTokenType>>

(* C30: when a boot() has completed and nothing is in flight, a          *)
(* SCOPED_ANON or USER_SCOPED instance holds a pending renewal timer and  *)
(* a FALLBACK_ANON instance holds a pending upgrade-retry timer.          *)
C30_TimerForTier ==
  (ev.op = "boot" /\ ev.step \in BootDone /\ AllIdle)
     => /\ currentTokenType \in {"SCOPED_ANON", "USER_SCOPED"} => RenewalArmed
        /\ currentTokenType = "FALLBACK_ANON" => UpgradeArmed

(* C25: when a token with expiry E has been obtained at time t, the      *)
(* renewal timer the instance holds is armed for max(t, E - 120 s); with  *)
(* a lifetime of 600 s that is 480 s after t; and the renewal callback    *)
(* does not run before the instant its timer was armed for.               *)
Obtained == Persisted \cup {"restored"}

C25_RenewalInstant ==
  [][/\ (ev' # ev /\ ev'.step \in Obtained /\ IsNum(tokenExpiry'))
        => /\ RenewalArmed'
           /\ \A x \in timers' :
                (x.kind = "reexchange" /\ x.id = reexchangeTimer')
                  => /\ x.due = Max(now, tokenExpiry'.n - 120 * 1000)
                     /\ (tokenExpiry'.n - now = 600 * 1000)
                          => x.due - now = 480 * 1000
     /\ (ev' # ev /\ ev'.op = "renew" /\ ev'.step = "fired")
        => \E x \in timers : x.kind = "reexchange" /\ x.due <= now
    ]_vars

(* a token of 600 s has been obtained and its renewal is armed 480 s on *)
C25_Witness ==
  /\ ev.step = "bound"
  /\ IsNum(tokenExpiry) /\ tokenExpiry.n - now = 600 * 1000
  /\ \E x \in timers : /\ x.kind = "reexchange" /\ x.id = reexchangeTimer
                       /\ x.due - now = 480 * 1000

(* C28: when the Control Plane signup answers 2xx, signUp calls login()  *)
(* once and never the direct Supabase signup: either login() succeeds    *)
(* and goes on to its exchange, or what it raises reaches the caller of   *)
(* signUp.                                                                *)
C28_LoginOnceAfterServerSignup ==
  [][(tasks["api"].pc = "signup_login" /\ tasks'["api"] # tasks["api"])
       => \/ tasks'["api"].pc = "login_exchange"
          \/ /\ tasks'["api"].pc = "idle"
             /\ ev'.op = "signUp" /\ ev'.step = "signup_raise"
    ]_vars

(* C22: every request body carries the signed context and neither raw   *)
(* identifier when a non-empty signed context is configured, and the two  *)
(* raw identifiers and no signed context otherwise; this holds for the    *)
(* four Control Plane calls, the Control Plane signup and the metadata    *)
(* given to supabase.auth.signUp.                                         *)
RawIds == {"tenantId", "projectId", "tenant_id", "project_id"}
Requests == Endpoints \cup {"/api/supabase/tenant-users/signup",
                            "supabase.auth.signUp"}

C22_ContextOrIds ==
  (probe.fn \in Requests) =>
     LET sent == DOMAIN probe.out IN
     IF hasSignedContext(probe.config)
     THEN "signedContext" \in sent /\ sent \cap RawIds = {}
     ELSE "signedContext" \notin sent /\ Cardinality(sent \cap RawIds) = 2

(* C26: the error signUp raises for an upstream message is the           *)
(* account-exists message when the upstream message contains "already     *)
(* registered", else the invalid-identifier message when it contains      *)
(* "invalid email", else the weak-password message when it contains       *)
(* "password", else the upstream message itself.                          *)
Lower(w) ==
  IF w = "Password" THEN "password"
  ELSE IF w = "Invalid" THEN "invalid"
  ELSE w

Folded(m) == [i \in 1..Len(m) |-> Lower(m[i])]

C26_FirstMatchingRule ==
  (probe.fn = "translate") =>
     LET m == Folded(probe.arg) IN
     IF Includes(m, <<"already", "registered">>)
     THEN probe.out = MsgAccountExists
     ELSE IF Includes(m, <<"invalid", "email">>)
     THEN probe.out = MsgInvalidUsername
     ELSE IF Includes(m, <<"password">>)
     THEN probe.out = MsgWeakPassword
     ELSE probe.arg # <<>> => probe.out = probe.arg

====
